---- MODULE Spec2Model ----
(***************************************************************************)
(* Weighted set cover over employees and client requirements: the solver   *)
(* family of src/solver (BacktrackSolver, DPSolver, DPSolverOptimized,     *)
(* GreedySolver, OracleSolver) over the domain model of src/elements.      *)
(*                                                                         *)
(* One behaviour is one solver instance: Init is the state right after     *)
(* construction over some (employees, client) pair, and one action per     *)
(* solver class is that class's solve().                                   *)
(*                                                                         *)
(* Modelling conventions                                                   *)
(*  - An Employee is a record [id, salary_per_hour, skills]; skills is a   *)
(*    function from the skills the employee has to their levels (a dict).  *)
(*    Employee.__eq__/__hash__ compare ids; ids are unique in a pool, so   *)
(*    record equality coincides with it.                                   *)
(*  - employees is the pool (a set object); employees_list is              *)
(*    list(employees): the iteration order of the pool. Every              *)
(*    "for employee in self.employees" walks it in that order.             *)
(*  - salary_per_hour is a natural number (the floats of the source under  *)
(*    exact addition); float('inf') is Inf, larger than any sum of costs.  *)
(*  - client.requirements is a function from the required skills to their  *)
(*    minimum levels; its key order is the order of SkillOrder.            *)
(*                                                                         *)
(* The same code is also modelled one step at a time (one loop iteration   *)
(* or one stretch of _backtrack between two calls or returns per step),    *)
(* for up to two solver instances over one pool and one client: attrs[i]   *)
(* holds the attributes of instance i and call[i] the position and the     *)
(* local variables of its running solve().                                 *)
(***************************************************************************)
EXTENDS Integers, Sequences, FiniteSets, TLC

\* ---------------------------------------------------------------- bounds
\* The largest pool and the largest hourly cost of the instances explored.
MaxEmployees == 2
MaxSalary == 2

\* ------------------------------------------------------ program constants
\* Client._validate_requirements: 1 <= level <= 10.
MIN_LEVEL == 1
MAX_LEVEL == 10
\* DPSolver.MAX_REQUIREMENTS
MAX_REQUIREMENTS == 20

\* Skill (enum): the members in declaration order.
SkillOrder == <<"JavaScript", "Python", "Java", "C#", "C++", "UI/UX Design", "Data Science">>

\* The skills the explored instances use: two members of the enum.
Skills == {"Python", "Java"}

\* Keys beyond the enum: a requirements dict holds them only when it was
\* filled after Client._validate_requirements ran (DPSolver does not look at
\* the type of a key). With them a mapping can have more than 20 entries.
UncheckedKeys == <<"K8", "K9", "K10", "K11", "K12", "K13", "K14", "K15", "K16", "K17", "K18", "K19", "K20", "K21">>

\* The key order of a requirements dict: the enum's members, then the others.
KeyOrder == SkillOrder \o UncheckedKeys

\* The position of each key in that order.
SkillIndex == [skill \in {KeyOrder[i] : i \in 1..Len(KeyOrder)} |-> CHOOSE i \in 1..Len(KeyOrder) : KeyOrder[i] = skill]

\* The levels the explored instances use: the two ends of the valid range.
Levels == {MIN_LEVEL, MAX_LEVEL}

Salaries == 0..MaxSalary

\* float('inf'): above every finite total the model can form.
Inf == (MaxEmployees + 1) * (MaxSalary + 1)

\* dict[Skill, int]: the partial functions from skills to levels.
SkillMaps == UNION {[S -> Levels] : S \in SUBSET Skills}

VARIABLES employees_list, employees, requirements, solver, pc, best_solution, skill_to_bit, employee_masks, full_mask, dp, parent, earlier, attrs, call

vars == <<employees_list, employees, requirements, solver, pc, best_solution, skill_to_bit, employee_masks, full_mask, dp, parent, earlier, attrs, call>>

\* ------------------------------------------------------------ domain model
Solution(emps, total_cost, is_valid) == [employees |-> emps, total_cost |-> total_cost, is_valid |-> is_valid]

SolutionInvalid == Solution({}, Inf, FALSE)

has_skill(employee, skill, min_level) == skill \in DOMAIN employee.skills /\ employee.skills[skill] >= min_level

\* Employee.covers_requirements(reqs): the keys of reqs the employee satisfies.
covers_requirements(employee, reqs) == {skill \in DOMAIN reqs : has_skill(employee, skill, reqs[skill])}

\* Mutant of covers_requirement: the level is not compared.
covers_requirement_any_level(employee, skill, level) == skill \in DOMAIN employee.skills

covers_requirement(employee, skill, level) == skill \in DOMAIN employee.skills /\ employee.skills[skill] >= level

get_covered_requirements(emps) == {skill \in DOMAIN requirements : \E e \in emps : covers_requirement(e, skill, requirements[skill])}

is_complete_cover(emps) == get_covered_requirements(emps) = DOMAIN requirements

RECURSIVE calculate_cost(_)
calculate_cost(emps) ==
    IF emps = {} THEN 0
    ELSE LET e == CHOOSE x \in emps : TRUE
         IN e.salary_per_hour + calculate_cost(emps \ {e})

\* The requirement entries not yet covered, as a dict restricted to them.
get_uncovered_requirements(emps) ==
    LET covered == get_covered_requirements(emps)
    IN [skill \in (DOMAIN requirements) \ covered |-> requirements[skill]]

\* Mutant of can_cover_any_requirement: every employee is worth including.
can_cover_any_requirement_always(employee, uncovered) == TRUE

can_cover_any_requirement(employee, uncovered) == \E skill \in DOMAIN uncovered : covers_requirement(employee, skill, uncovered[skill])

\* ------------------------------------------------------- BacktrackSolver
\* Mutant of _can_potentially_cover: the scan starts after from_pos.
_can_potentially_cover_after(from_pos, uncovered) ==
    IF DOMAIN uncovered = {} THEN TRUE
    ELSE LET coverable_skills == {skill \in DOMAIN uncovered :
                                    \E i \in (from_pos + 1)..Len(employees_list) :
                                       covers_requirement(employees_list[i], skill, uncovered[skill])}
         IN coverable_skills = DOMAIN uncovered

\* Mutant of _can_potentially_cover: one coverable skill is enough.
_can_potentially_cover_some(from_pos, uncovered) ==
    IF DOMAIN uncovered = {} THEN TRUE
    ELSE LET coverable_skills == {skill \in DOMAIN uncovered :
                                    \E i \in from_pos..Len(employees_list) :
                                       covers_requirement(employees_list[i], skill, uncovered[skill])}
         IN coverable_skills # {}

\* Positions are 1-based here: pos of the source is pos - 1.
_can_potentially_cover(from_pos, uncovered) ==
    IF DOMAIN uncovered = {} THEN TRUE
    ELSE LET coverable_skills == {skill \in DOMAIN uncovered :
                                    \E i \in from_pos..Len(employees_list) :
                                       covers_requirement(employees_list[i], skill, uncovered[skill])}
         IN coverable_skills = DOMAIN uncovered

\* Mutant of CostPrune: a branch as dear as the best one is still explored.
CostPrune_above(current_cost, best_cost) == current_cost > best_cost

\* The cost cut of _backtrack: abandon when the branch cannot beat the best.
CostPrune(current_cost, best_cost) == current_cost >= best_cost

\* _backtrack(pos, selected, current_cost), as the value self.best_solution
\* has when the call returns, given its value best on entry.
RECURSIVE _backtrack(_, _, _, _)
_backtrack(pos, selected, current_cost, best) ==
    IF CostPrune(current_cost, best.total_cost) THEN best
    ELSE IF is_complete_cover(selected) THEN Solution(selected, current_cost, TRUE)
    ELSE IF pos > Len(employees_list) THEN best
    ELSE LET uncovered == get_uncovered_requirements(selected)
         IN IF ~_can_potentially_cover(pos, uncovered) THEN best
            ELSE LET employee == employees_list[pos]
                     afterInclude ==
                         IF can_cover_any_requirement(employee, uncovered)
                         THEN _backtrack(pos + 1, selected \cup {employee},
                                         current_cost + employee.salary_per_hour, best)
                         ELSE best
                 IN _backtrack(pos + 1, selected, current_cost, afterInclude)

BacktrackSolve == _backtrack(1, {}, 0, SolutionInvalid)

\* -------------------------------------------------------------- DPSolver
\* Bitmasks are natural numbers; a | b on them.
RECURSIVE BitOr(_, _)
BitOr(a, b) ==
    IF a = 0 THEN b
    ELSE IF b = 0 THEN a
    ELSE (IF a % 2 = 1 \/ b % 2 = 1 THEN 1 ELSE 0) + 2 * BitOr(a \div 2, b \div 2)

\* a & b
RECURSIVE BitAnd(_, _)
BitAnd(a, b) ==
    IF a = 0 \/ b = 0 THEN 0
    ELSE (IF a % 2 = 1 /\ b % 2 = 1 THEN 1 ELSE 0) + 2 * BitAnd(a \div 2, b \div 2)

\* 1 << n
RECURSIVE Shl1(_)
Shl1(n) == IF n = 0 THEN 1 ELSE 2 * Shl1(n - 1)

\* _initialize_bitmasks: enumerate(requirements.keys()) numbers the required
\* skills 0..m-1 in key order.
SkillBit(skill) == Cardinality({t \in DOMAIN requirements : SkillIndex[t] < SkillIndex[skill]})

InitSkillToBit == [skill \in DOMAIN requirements |-> SkillBit(skill)]

InitFullMask == Shl1(Cardinality(DOMAIN requirements)) - 1

RECURSIVE MaskOfBits(_)
MaskOfBits(bits) ==
    IF bits = {} THEN 0
    ELSE LET b == CHOOSE x \in bits : TRUE
         IN BitOr(Shl1(b), MaskOfBits(bits \ {b}))

\* Mutant of _get_employee_mask: has_skill with its default min_level.
_get_employee_mask_default_level(employee) == MaskOfBits({SkillBit(skill) : skill \in {t \in DOMAIN requirements : has_skill(employee, t, 1)}})

_get_employee_mask(employee) == MaskOfBits({SkillBit(skill) : skill \in {t \in DOMAIN requirements : has_skill(employee, t, requirements[t])}})

\* The (employee, mask) pairs of the pool in iteration order.
EmployeeMaskPairs == [i \in 1..Len(employees_list) |-> <<employees_list[i], _get_employee_mask(employees_list[i])>>]

\* Mutant of IsUseful: mask > 1.
IsUseful_above_one(pair) == pair[2] > 1

IsUseful(pair) == pair[2] > 0

\* DPSolver._get_useful_employees
_get_useful_employees == SelectSeq(EmployeeMaskPairs, IsUseful)

\* self._employee_masks after either _get_useful_employees
UsefulMasks ==
    LET pairs == SelectSeq(EmployeeMaskPairs, IsUseful)
    IN [e \in {pairs[i][1] : i \in 1..Len(pairs)} |-> (CHOOSE p \in {pairs[i] : i \in 1..Len(pairs)} : p[1] = e)[2]]

\* The test of the transition: the new cost must be strictly lower.
Improves(new_cost, old_cost) == new_cost < old_cost

\* Mutant of DPStep: every backpointer leads straight to state 0.
DPStep_parent_zero(t, employee, emp_mask, S) ==
    IF t.dp[S] < Inf
    THEN LET next_S == BitOr(S, emp_mask)
             new_cost == t.dp[S] + employee.salary_per_hour
         IN IF Improves(new_cost, t.dp[next_S])
            THEN [dp |-> [t.dp EXCEPT ![next_S] = new_cost],
                  parent |-> [t.parent EXCEPT ![next_S] = <<employee, 0>>]]
            ELSE t
    ELSE t

\* One step of the inner loop of _run_dp, for state S.
DPStep(t, employee, emp_mask, S) ==
    IF t.dp[S] < Inf
    THEN LET next_S == BitOr(S, emp_mask)
             new_cost == t.dp[S] + employee.salary_per_hour
         IN IF Improves(new_cost, t.dp[next_S])
            THEN [dp |-> [t.dp EXCEPT ![next_S] = new_cost],
                  parent |-> [t.parent EXCEPT ![next_S] = <<employee, S>>]]
            ELSE t
    ELSE t

\* Mutant of DPPass: range(full_mask, 0, -1), state 0 is not visited.
RECURSIVE DPPass_above_zero(_, _, _, _)
DPPass_above_zero(t, employee, emp_mask, S) ==
    IF S < 1 THEN t
    ELSE DPPass_above_zero(DPStep(t, employee, emp_mask, S), employee, emp_mask, S - 1)

\* for S in range(full_mask, -1, -1), from S downwards.
RECURSIVE DPPass(_, _, _, _)
DPPass(t, employee, emp_mask, S) ==
    IF S < 0 THEN t
    ELSE DPPass(DPStep(t, employee, emp_mask, S), employee, emp_mask, S - 1)

\* for employee, emp_mask in employees, from index i.
RECURSIVE DPLoop(_, _, _, _)
DPLoop(t, emps, i, fm) ==
    IF i > Len(emps) THEN t
    ELSE DPLoop(DPPass(t, emps[i][1], emps[i][2], fm), emps, i + 1, fm)

\* None of the parent table.
None == <<>>

\* The tables before the first employee (lines 147-149).
InitialTables(fm) == [dp |-> [S \in 0..fm |-> IF S = 0 THEN 0 ELSE Inf], parent |-> [S \in 0..fm |-> None]]

\* _run_dp: the tables [dp, parent] it leaves.
_run_dp(emps, fm) == DPLoop(InitialTables(fm), emps, 1, fm)

\* Mutant of WalkParents: an if in place of the while (one backpointer only).
WalkParents_once(t, S, selected) ==
    IF S # 0 /\ t.parent[S] # None
    THEN selected \cup {t.parent[S][1]}
    ELSE selected

\* The while loop of _extract_solution, from state S with selected so far.
RECURSIVE WalkParents(_, _, _)
WalkParents(t, S, selected) ==
    IF S # 0 /\ t.parent[S] # None
    THEN WalkParents(t, t.parent[S][2], selected \cup {t.parent[S][1]})
    ELSE selected

_extract_solution(t, fm) ==
    IF t.dp[fm] = Inf THEN SolutionInvalid
    ELSE Solution(WalkParents(t, fm, {}), t.dp[fm], TRUE)

\* Mutant of TooManyRequirements: the limit itself is refused.
TooManyRequirements_at_limit(num_requirements) == num_requirements >= MAX_REQUIREMENTS

\* The validation of DPSolver.solve (line 52).
TooManyRequirements(num_requirements) == num_requirements > MAX_REQUIREMENTS

\* DPSolver.solve over the useful list a subclass supplies: the fields of
\* the solver when it returns (or raises).
DPSolveWith(useful) ==
    LET num_requirements == Cardinality(DOMAIN requirements)
        unchanged == [pc |-> "returned", best_solution |-> best_solution, skill_to_bit |-> skill_to_bit,
                      employee_masks |-> employee_masks, full_mask |-> full_mask, dp |-> dp, parent |-> parent]
    IN IF TooManyRequirements(num_requirements) THEN [unchanged EXCEPT !.pc = "raised"]
       ELSE IF num_requirements = 0 THEN [unchanged EXCEPT !.best_solution = Solution({}, 0, TRUE)]
       ELSE LET fm == InitFullMask
                init == [unchanged EXCEPT !.skill_to_bit = InitSkillToBit, !.full_mask = fm,
                                          !.employee_masks = UsefulMasks]
            IN IF Len(useful) = 0 THEN [init EXCEPT !.best_solution = SolutionInvalid]
               ELSE LET t == _run_dp(useful, fm)
                    IN [init EXCEPT !.dp = t.dp, !.parent = t.parent,
                                    !.best_solution = _extract_solution(t, fm)]

DPSolve == DPSolveWith(_get_useful_employees)

\* ----------------------------------------------------- DPSolverOptimized
\* Mutant of MergeMasks: the kept employee's salary is overwritten with the
\* cheaper one instead of the cheaper employee replacing it.
RECURSIVE MergeMasks_overwrite(_, _, _)
MergeMasks_overwrite(all_useful, i, items) ==
    IF i > Len(all_useful) THEN items
    ELSE LET employee == all_useful[i][1]
             mask == all_useful[i][2]
             at == {k \in 1..Len(items) : items[k][2] = mask}
         IN IF at = {} THEN MergeMasks_overwrite(all_useful, i + 1, Append(items, <<employee, mask>>))
            ELSE LET k == CHOOSE x \in at : TRUE
                 IN IF employee.salary_per_hour < items[k][1].salary_per_hour
                    THEN MergeMasks_overwrite(all_useful, i + 1,
                             [items EXCEPT ![k] = <<[items[k][1] EXCEPT !.salary_per_hour = employee.salary_per_hour], mask>>])
                    ELSE MergeMasks_overwrite(all_useful, i + 1, items)

\* Mutant of MergeMasks: the dearer employee of a mask is kept.
RECURSIVE MergeMasks_dearest(_, _, _)
MergeMasks_dearest(all_useful, i, items) ==
    IF i > Len(all_useful) THEN items
    ELSE LET employee == all_useful[i][1]
             mask == all_useful[i][2]
             at == {k \in 1..Len(items) : items[k][2] = mask}
         IN IF at = {} THEN MergeMasks_dearest(all_useful, i + 1, Append(items, <<employee, mask>>))
            ELSE LET k == CHOOSE x \in at : TRUE
                 IN IF employee.salary_per_hour > items[k][1].salary_per_hour
                    THEN MergeMasks_dearest(all_useful, i + 1, [items EXCEPT ![k] = <<employee, mask>>])
                    ELSE MergeMasks_dearest(all_useful, i + 1, items)

\* Mutant of MergeMasks: <= in place of <, so of two employees of one mask
\* and one salary the one met last is kept.
RECURSIVE MergeMasks_last(_, _, _)
MergeMasks_last(all_useful, i, items) ==
    IF i > Len(all_useful) THEN items
    ELSE LET employee == all_useful[i][1]
             mask == all_useful[i][2]
             at == {k \in 1..Len(items) : items[k][2] = mask}
         IN IF at = {} THEN MergeMasks_last(all_useful, i + 1, Append(items, <<employee, mask>>))
            ELSE LET k == CHOOSE x \in at : TRUE
                 IN IF employee.salary_per_hour <= items[k][1].salary_per_hour
                    THEN MergeMasks_last(all_useful, i + 1, [items EXCEPT ![k] = <<employee, mask>>])
                    ELSE MergeMasks_last(all_useful, i + 1, items)

\* Step 1 of _get_useful_employees: mask_to_best, as its items in insertion
\* order, after the pairs of all_useful from index i on.
RECURSIVE MergeMasks(_, _, _)
MergeMasks(all_useful, i, items) ==
    IF i > Len(all_useful) THEN items
    ELSE LET employee == all_useful[i][1]
             mask == all_useful[i][2]
             at == {k \in 1..Len(items) : items[k][2] = mask}
         IN IF at = {} THEN MergeMasks(all_useful, i + 1, Append(items, <<employee, mask>>))
            ELSE LET k == CHOOSE x \in at : TRUE
                 IN IF employee.salary_per_hour < items[k][1].salary_per_hour
                    THEN MergeMasks(all_useful, i + 1, [items EXCEPT ![k] = <<employee, mask>>])
                    ELSE MergeMasks(all_useful, i + 1, items)

\* Mutant of Dominates: the salaries are not compared.
Dominates_ignoring_cost(emp_b, mask_b, emp_a, mask_a) == BitAnd(mask_a, mask_b) = mask_a /\ mask_b # mask_a

\* B dominates A (lines 273-277).
Dominates(emp_b, mask_b, emp_a, mask_a) ==
    LET covers_all_of_a == BitAnd(mask_a, mask_b) = mask_a
        costs_same_or_less == emp_b.salary_per_hour <= emp_a.salary_per_hour
        strictly_better == (mask_b # mask_a) \/ (emp_b.salary_per_hour < emp_a.salary_per_hour)
    IN covers_all_of_a /\ costs_same_or_less /\ strictly_better

\* Step 2: the pairs of combined that no other pair dominates, in order.
RECURSIVE NonDominated(_, _)
NonDominated(combined, i) ==
    IF i > Len(combined) THEN <<>>
    ELSE LET is_dominated == \E j \in 1..Len(combined) :
                                 j # i /\ Dominates(combined[j][1], combined[j][2], combined[i][1], combined[i][2])
         IN IF is_dominated THEN NonDominated(combined, i + 1)
            ELSE <<combined[i]>> \o NonDominated(combined, i + 1)

\* DPSolverOptimized._get_useful_employees
_get_useful_employees_optimized ==
    LET all_useful == SelectSeq(EmployeeMaskPairs, IsUseful)
    IN IF Len(all_useful) <= 1 THEN all_useful
       ELSE LET combined == MergeMasks(all_useful, 1, <<>>)
            IN IF Len(combined) <= 1 THEN combined
               ELSE NonDominated(combined, 1)

DPOptimizedSolve == DPSolveWith(_get_useful_employees_optimized)

\* ----------------------------------------------------------- GreedySolver
\* Mutant of EfficiencyDenominator: the cost itself is the divisor.
EfficiencyDenominator_cost(employee) == employee.salary_per_hour

\* max(employee.salary_per_hour, 1.0)
EfficiencyDenominator(employee) == IF employee.salary_per_hour > 1 THEN employee.salary_per_hour ELSE 1

\* n1/d1 > n2/d2 for positive denominators (the float comparison, exactly).
RatioGreater(n1, d1, n2, d2) == n1 * d2 > n2 * d1

\* Mutant of SelectLoop: without the "if new_coverage == 0: continue".
RECURSIVE SelectLoop_no_skip(_, _, _, _)
SelectLoop_no_skip(available, uncovered, i, b) ==
    IF i > Len(employees_list) THEN b.employee
    ELSE LET employee == employees_list[i]
             new_coverage == Cardinality(covers_requirements(employee, uncovered))
         IN IF employee \notin available
            THEN SelectLoop_no_skip(available, uncovered, i + 1, b)
            ELSE IF RatioGreater(new_coverage, EfficiencyDenominator(employee), b.num, b.den)
                 THEN SelectLoop_no_skip(available, uncovered, i + 1,
                                         [employee |-> employee, num |-> new_coverage, den |-> EfficiencyDenominator(employee)])
                 ELSE SelectLoop_no_skip(available, uncovered, i + 1, b)

\* The body of the for loop of _select_best_employee, over the available
\* employees in iteration order from index i; b = [employee, num, den] holds
\* best_employee and best_efficiency = num/den (None: no employee yet).
RECURSIVE SelectLoop(_, _, _, _)
SelectLoop(available, uncovered, i, b) ==
    IF i > Len(employees_list) THEN b.employee
    ELSE LET employee == employees_list[i]
             new_coverage == Cardinality(covers_requirements(employee, uncovered))
         IN IF employee \notin available \/ new_coverage = 0
            THEN SelectLoop(available, uncovered, i + 1, b)
            ELSE IF RatioGreater(new_coverage, EfficiencyDenominator(employee), b.num, b.den)
                 THEN SelectLoop(available, uncovered, i + 1,
                                 [employee |-> employee, num |-> new_coverage, den |-> EfficiencyDenominator(employee)])
                 ELSE SelectLoop(available, uncovered, i + 1, b)

\* Mutant of _select_best_employee: best_efficiency starts at 1.0.
_select_best_employee_from_one(available, uncovered) == SelectLoop(available, uncovered, 1, [employee |-> None, num |-> 1, den |-> 1])

_select_best_employee(available, uncovered) == SelectLoop(available, uncovered, 1, [employee |-> None, num |-> -1, den |-> 1])

\* uncovered after "del uncovered[skill]" for every skill the employee covers.
RemoveCovered(employee, uncovered) == [skill \in (DOMAIN uncovered) \ covers_requirements(employee, uncovered) |-> uncovered[skill]]

\* The while loop of GreedySolver.solve, then the Solution it builds.
RECURSIVE GreedyLoop(_, _, _, _)
GreedyLoop(selected, available, uncovered, total_cost) ==
    IF DOMAIN uncovered # {} /\ available # {}
    THEN LET best_employee == _select_best_employee(available, uncovered)
         IN IF best_employee = None
            THEN Solution(selected, total_cost, DOMAIN uncovered = {})
            ELSE GreedyLoop(selected \cup {best_employee}, available \ {best_employee},
                            RemoveCovered(best_employee, uncovered),
                            total_cost + best_employee.salary_per_hour)
    ELSE Solution(selected, total_cost, DOMAIN uncovered = {})

GreedySolve == GreedyLoop({}, employees, requirements, 0)

\* ----------------------------------------------------------- OracleSolver
PrefixAll(i, seqs) == [k \in 1..Len(seqs) |-> <<i>> \o seqs[k]]

\* itertools.combinations over positions lo..n, r at a time, in its
\* (lexicographic) order.
RECURSIVE Combinations(_, _, _)
Combinations(lo, n, r) ==
    IF r = 0 THEN << <<>> >>
    ELSE IF lo > n THEN <<>>
    ELSE PrefixAll(lo, Combinations(lo + 1, n, r - 1)) \o Combinations(lo + 1, n, r)

\* for r in range(1, n + 1): for subset in combinations(employees, r)
RECURSIVE SubsetsBySize(_, _)
SubsetsBySize(r, n) == IF r > n THEN <<>> ELSE Combinations(1, n, r) \o SubsetsBySize(r + 1, n)

SetMax(S) == CHOOSE x \in S : \A y \in S : y <= x

\* OracleSolver._covers_requirements
_covers_requirements(subset) ==
    LET covered(skill) == SetMax({0} \cup {e.skills[skill] : e \in {x \in subset : skill \in DOMAIN x.skills}})
    IN \A skill \in DOMAIN requirements : ~(covered(skill) < requirements[skill])

\* The body of the inner loop of OracleSolver.solve for one subset, given as
\* the positions of its employees.
OracleStep(positions, b) ==
    LET subset == {employees_list[positions[j]] : j \in 1..Len(positions)}
    IN IF _covers_requirements(subset) /\ calculate_cost(subset) < b.best_cost
       THEN [best_cost |-> calculate_cost(subset), best_solution |-> subset]
       ELSE b

\* The two loops of OracleSolver.solve from the k-th subset on;
\* b = [best_cost, best_solution].
RECURSIVE OracleLoop(_, _, _)
OracleLoop(subsets, k, b) ==
    IF k > Len(subsets) THEN b
    ELSE OracleLoop(subsets, k + 1, OracleStep(subsets[k], b))

\* OracleSolver.solve: the set it returns and stores in self.best_solution
\* (a set of employees, not a Solution).
\* The enumeration order for each pool size.
SubsetOrder == [n \in 0..(MaxEmployees + 1) |-> SubsetsBySize(1, n)]

OracleSolve == OracleLoop(SubsetOrder[Len(employees_list)], 1, [best_cost |-> Inf, best_solution |-> {}]).best_solution

\* ---------------------------------------------------------- state machine
\* The pools of n employees, ids 1..n in iteration order.
Employees(n) ==
    {[i \in 1..n |-> [id |-> i, salary_per_hour |-> a[i].salary_per_hour, skills |-> a[i].skills]] :
        a \in [1..n -> [salary_per_hour : Salaries, skills : SkillMaps]]}

\* After construction: ProblemSolver.__init__ and DPSolver.__init__.
\* The solver instances of the stepwise runs.
Instances == {1, 2}

\* An instance that does not exist yet; its attributes are written down with
\* the values __init__ will give them.
NoAttributes == [constructed |-> FALSE, best_solution |-> SolutionInvalid, skill_to_bit |-> <<>>, employee_masks |-> <<>>, full_mask |-> 0, dp |-> <<>>, parent |-> <<>>]

NoCall == [class |-> "none", pc |-> "none"]

Constructed ==
    /\ employees = {employees_list[i] : i \in 1..Len(employees_list)}
    /\ solver = "ProblemSolver"
    /\ pc = "constructed"
    /\ best_solution = SolutionInvalid
    /\ skill_to_bit = <<>>
    /\ employee_masks = <<>>
    /\ full_mask = 0
    /\ dp = <<>>
    /\ parent = <<>>
    /\ earlier = None
    /\ attrs = [i \in Instances |-> NoAttributes]
    /\ call = [i \in Instances |-> NoCall]

\* Skill dicts with every level at the top of the range.
OneLevelMaps == UNION {[S -> {MAX_LEVEL}] : S \in SUBSET Skills}

\* The pools of n employees whose skills are all at that level.
EmployeesOneLevel(n) ==
    {[i \in 1..n |-> [id |-> i, salary_per_hour |-> a[i].salary_per_hour, skills |-> a[i].skills]] :
        a \in [1..n -> [salary_per_hour : Salaries, skills : OneLevelMaps]]}

Init ==
    /\ \E n \in 0..MaxEmployees : employees_list \in Employees(n)
    /\ requirements \in SkillMaps
    /\ Constructed

\* The instances whose levels are all equal.
InitOneLevel ==
    /\ \E n \in 0..MaxEmployees : employees_list \in EmployeesOneLevel(n)
    /\ requirements \in OneLevelMaps
    /\ Constructed

\* Instances for the pre-filter of DPSolverOptimized: pools of up to one
\* employee more, all levels equal (so that holding a skill is covering it).
InitFilter ==
    /\ \E n \in 0..(MaxEmployees + 1) : employees_list \in EmployeesOneLevel(n)
    /\ requirements \in OneLevelMaps
    /\ Constructed

\* A requirements dict of the first k keys, all at one level.
ManyRequirements(k, level) == [skill \in {KeyOrder[j] : j \in 1..k} |-> level]

\* Instances at the limit of DPSolver and one past it. At exactly
\* MAX_REQUIREMENTS requirements only pools without a useful employee are
\* explored (the table of 2^20 states is not built for them).
InitManyRequirements ==
    /\ \E k \in {MAX_REQUIREMENTS, MAX_REQUIREMENTS + 1} : \E level \in Levels : requirements = ManyRequirements(k, level)
    /\ \E n \in 0..MaxEmployees : employees_list \in Employees(n)
    /\ Cardinality(DOMAIN requirements) <= MAX_REQUIREMENTS =>
           \A i \in 1..Len(employees_list) : covers_requirements(employees_list[i], requirements) = {}
    /\ Constructed

\* BacktrackSolver.solve
SolveBacktrack ==
    /\ pc = "constructed"
    /\ solver' = "BacktrackSolver"
    /\ best_solution' = BacktrackSolve
    /\ pc' = "returned"
    /\ UNCHANGED <<employees_list, employees, requirements, skill_to_bit, employee_masks, full_mask, dp, parent, earlier, attrs, call>>

DPReturn(r) ==
    /\ pc' = r.pc
    /\ best_solution' = r.best_solution
    /\ skill_to_bit' = r.skill_to_bit
    /\ employee_masks' = r.employee_masks
    /\ full_mask' = r.full_mask
    /\ dp' = r.dp
    /\ parent' = r.parent

\* DPSolver.solve
SolveDP ==
    /\ pc = "constructed"
    /\ solver' = "DPSolver"
    /\ DPReturn(DPSolve)
    /\ UNCHANGED <<employees_list, employees, requirements, earlier, attrs, call>>

\* DPSolverOptimized.solve
SolveDPOptimized ==
    /\ pc = "constructed"
    /\ solver' = "DPSolverOptimized"
    /\ DPReturn(DPOptimizedSolve)
    /\ UNCHANGED <<employees_list, employees, requirements, earlier, attrs, call>>

\* GreedySolver.solve
SolveGreedy ==
    /\ pc = "constructed"
    /\ solver' = "GreedySolver"
    /\ best_solution' = GreedySolve
    /\ pc' = "returned"
    /\ UNCHANGED <<employees_list, employees, requirements, skill_to_bit, employee_masks, full_mask, dp, parent, earlier, attrs, call>>

\* OracleSolver.solve
SolveOracle ==
    /\ pc = "constructed"
    /\ solver' = "OracleSolver"
    /\ best_solution' = OracleSolve
    /\ pc' = "returned"
    /\ UNCHANGED <<employees_list, employees, requirements, skill_to_bit, employee_masks, full_mask, dp, parent, earlier, attrs, call>>

\* The orders a set of employees can be iterated in.
Orders(emps) == {order \in [1..Cardinality(emps) -> emps] : {order[i] : i \in 1..Cardinality(emps)} = emps}

\* The caller keeps what solve returned and constructs a fresh solver over
\* the same employees and the same client; the new pool holds the same
\* employees and may iterate in another order.
ConstructAgain ==
    /\ pc = "returned"
    /\ earlier = None
    /\ earlier' = [solver |-> solver, result |-> best_solution]
    /\ employees_list' \in Orders(employees)
    /\ solver' = "ProblemSolver"
    /\ pc' = "constructed"
    /\ best_solution' = SolutionInvalid
    /\ skill_to_bit' = <<>>
    /\ employee_masks' = <<>>
    /\ full_mask' = 0
    /\ dp' = <<>>
    /\ parent' = <<>>
    /\ UNCHANGED <<employees, requirements, attrs, call>>

Next ==
    \/ SolveBacktrack
    \/ SolveDP
    \/ SolveDPOptimized
    \/ SolveGreedy
    \/ SolveOracle

Spec == Init /\ [][Next]_vars

\* The same instances under one solver family at a time.
SpecBacktrack == Init /\ [][SolveBacktrack]_vars

SpecDP == Init /\ [][SolveDP \/ SolveDPOptimized]_vars

\* The DP solvers at and past their limit of requirements.
SpecManyRequirements == InitManyRequirements /\ [][SolveDP \/ SolveDPOptimized]_vars

\* DPSolverOptimized over the pre-filter's instances.
SpecFilter == InitFilter /\ [][SolveDPOptimized]_vars

\* Two solvers, one after the other, over the same employees and client.
SpecTwice == InitOneLevel /\ [][Next \/ ConstructAgain]_vars

\* The exact solvers.
SpecExact == Init /\ [][SolveBacktrack \/ SolveDP \/ SolveDPOptimized]_vars

\* The solvers whose solve returns a Solution.
SpecSolution == Init /\ [][SolveBacktrack \/ SolveDP \/ SolveDPOptimized \/ SolveGreedy]_vars

\* GreedySolver alone.
SpecGreedy == Init /\ [][SolveGreedy]_vars

\* ------------------------------------------------------------ step by step
\* The variables of the solve() actions above, which the stepwise runs leave.
whole == <<solver, pc, best_solution, skill_to_bit, employee_masks, full_mask, dp, parent, earlier>>

Classes == {"BacktrackSolver", "DPSolver", "DPSolverOptimized", "GreedySolver", "OracleSolver"}

DPClasses == {"DPSolver", "DPSolverOptimized"}

\* Mutant of Self: the attributes live in one place for all instances (as
\* class attributes would).
Self_shared(i) == 1

\* The object whose attributes "self.x" reads and writes in instance i.
Self(i) == i

\* ProblemSolver.__init__, and DPSolver.__init__ for the DP classes (the
\* other classes never read the attributes it adds).
NewAttributes(class) ==
    [constructed |-> TRUE, best_solution |-> SolutionInvalid, skill_to_bit |-> <<>>, employee_masks |-> <<>>, full_mask |-> 0, dp |-> <<>>, parent |-> <<>>]

\* solver_cls(employees, client)
Construct(i, class) ==
    /\ call[i].pc = "none"
    /\ call' = [call EXCEPT ![i] = [class |-> class, pc |-> "constructed"]]
    /\ attrs' = [attrs EXCEPT ![Self(i)] = NewAttributes(class)]
    /\ UNCHANGED <<employees_list, employees, requirements>>
    /\ UNCHANGED whole

\* "return value": solve() of instance i hands the value to its caller.
ReturnValue(class, value) == [class |-> class, pc |-> "returned", result |-> value]

\* ---- BacktrackSolver, step by step
\* A call _backtrack(pos, selected, current_cost) that has not run yet.
Frame(pos, current_cost) == [pos |-> pos, current_cost |-> current_cost, at |-> "enter"]

Top(stack) == stack[Len(stack)]

\* The running call returns to its caller.
Pop(stack) == SubSeq(stack, 1, Len(stack) - 1)

\* Mutant of Recurse: the recursive call is made with pos, not pos + 1.
Recurse_same_pos(stack, at, current_cost) == Append([stack EXCEPT ![Len(stack)].at = at], Frame(Top(stack).pos, current_cost))

\* The running call moves to position at and calls _backtrack(pos + 1, ...).
Recurse(stack, at, current_cost) == Append([stack EXCEPT ![Len(stack)].at = at], Frame(Top(stack).pos + 1, current_cost))

\* Mutant of RecordedObject: Solution(selected, ...) keeps the set itself.
RecordedObject_alias == "selected"

\* Solution(selected.copy(), current_cost, True): the set the recorded
\* Solution holds is a new object.
RecordedObject == "copy"

\* self.best_solution as it reads once the set selected holds these workers.
SeenThrough(best, selected) == IF RecordedObject = "selected" /\ best.is_valid THEN [best EXCEPT !.employees = selected] ELSE best

\* Mutant of Removed: the employee stays selected.
Removed_not(selected, employee) == selected

\* selected.remove(employee)
Removed(selected, employee) == selected \ {employee}

\* BacktrackSolver.solve up to its call self._backtrack(0, set(), 0.0).
Backtrack_solve(i) ==
    /\ call[i].class = "BacktrackSolver"
    /\ call[i].pc = "constructed"
    /\ call' = [call EXCEPT ![i] = [class |-> "BacktrackSolver", pc |-> "backtrack", selected |-> {},
                                      stack |-> <<Frame(1, 0)>>, left_by |-> "none"]]
    /\ UNCHANGED <<attrs, employees_list, employees, requirements>>
    /\ UNCHANGED whole

\* A call of _backtrack from its first line to its first return or recursive
\* call; left_by names the statement that ended the stretch.
Backtrack_enter(i) ==
    /\ call[i].class = "BacktrackSolver"
    /\ call[i].pc = "backtrack"
    /\ call[i].stack # <<>>
    /\ Top(call[i].stack).at = "enter"
    /\ LET stack == call[i].stack
           f == Top(stack)
           selected == call[i].selected
           uncovered == get_uncovered_requirements(selected)
           employee == employees_list[f.pos]
       IN IF CostPrune(f.current_cost, attrs[Self(i)].best_solution.total_cost)
          THEN /\ call' = [call EXCEPT ![i].stack = Pop(stack), ![i].left_by = "cost"]
               /\ UNCHANGED attrs
          ELSE IF is_complete_cover(selected)
          THEN /\ attrs' = [attrs EXCEPT ![Self(i)].best_solution = Solution(selected, f.current_cost, TRUE)]
               /\ call' = [call EXCEPT ![i].stack = Pop(stack), ![i].left_by = "complete"]
          ELSE IF f.pos > Len(employees_list)
          THEN /\ call' = [call EXCEPT ![i].stack = Pop(stack), ![i].left_by = "exhausted"]
               /\ UNCHANGED attrs
          ELSE IF ~_can_potentially_cover(f.pos, uncovered)
          THEN /\ call' = [call EXCEPT ![i].stack = Pop(stack), ![i].left_by = "infeasible"]
               /\ UNCHANGED attrs
          ELSE IF can_cover_any_requirement(employee, uncovered)
          THEN /\ call' = [call EXCEPT ![i].selected = selected \cup {employee},
                                        ![i].stack = Recurse(stack, "included", f.current_cost + employee.salary_per_hour),
                                        ![i].left_by = "include"]
               /\ attrs' = [attrs EXCEPT ![Self(i)].best_solution = SeenThrough(@, selected \cup {employee})]
          ELSE /\ call' = [call EXCEPT ![i].stack = Recurse(stack, "excluded", f.current_cost), ![i].left_by = "exclude"]
               /\ UNCHANGED attrs
    /\ UNCHANGED <<employees_list, employees, requirements>>
    /\ UNCHANGED whole

\* The include branch has returned: selected.remove(employee), then the
\* exclude branch is called.
Backtrack_after_include(i) ==
    /\ call[i].class = "BacktrackSolver"
    /\ call[i].pc = "backtrack"
    /\ call[i].stack # <<>>
    /\ Top(call[i].stack).at = "included"
    /\ LET stack == call[i].stack
           f == Top(stack)
           selected == Removed(call[i].selected, employees_list[f.pos])
       IN /\ call' = [call EXCEPT ![i].selected = selected,
                                  ![i].stack = Recurse(stack, "excluded", f.current_cost),
                                  ![i].left_by = "exclude"]
          /\ attrs' = [attrs EXCEPT ![Self(i)].best_solution = SeenThrough(@, selected)]
    /\ UNCHANGED <<employees_list, employees, requirements>>
    /\ UNCHANGED whole

\* The exclude branch has returned: the call ends.
Backtrack_after_exclude(i) ==
    /\ call[i].class = "BacktrackSolver"
    /\ call[i].pc = "backtrack"
    /\ call[i].stack # <<>>
    /\ Top(call[i].stack).at = "excluded"
    /\ call' = [call EXCEPT ![i].stack = Pop(call[i].stack), ![i].left_by = "end"]
    /\ UNCHANGED <<attrs, employees_list, employees, requirements>>
    /\ UNCHANGED whole

\* The outermost call has returned: return self.best_solution.
Backtrack_return(i) ==
    /\ call[i].class = "BacktrackSolver"
    /\ call[i].pc = "backtrack"
    /\ call[i].stack = <<>>
    /\ call' = [call EXCEPT ![i] = ReturnValue("BacktrackSolver", attrs[Self(i)].best_solution)]
    /\ UNCHANGED <<attrs, employees_list, employees, requirements>>
    /\ UNCHANGED whole

BacktrackStep(i) ==
    \/ Backtrack_solve(i)
    \/ Backtrack_enter(i)
    \/ Backtrack_after_include(i)
    \/ Backtrack_after_exclude(i)
    \/ Backtrack_return(i)

\* One BacktrackSolver, step by step.
SpecBacktrackSteps == InitOneLevel /\ [][Construct(1, "BacktrackSolver") \/ BacktrackStep(1)]_vars

\* The pools of n employees with skills at any level, at the lowest positive
\* and the highest cost.
EmployeesTwoCosts(n) ==
    {[i \in 1..n |-> [id |-> i, salary_per_hour |-> a[i].salary_per_hour, skills |-> a[i].skills]] :
        a \in [1..n -> [salary_per_hour : {1, MaxSalary}, skills : SkillMaps]]}

InitLevels ==
    /\ \E n \in 0..MaxEmployees : employees_list \in EmployeesTwoCosts(n)
    /\ requirements \in SkillMaps
    /\ Constructed

\* One BacktrackSolver, step by step, with skills and requirements at any
\* level.
SpecBacktrackLevels == InitLevels /\ [][Construct(1, "BacktrackSolver") \/ BacktrackStep(1)]_vars

\* ---- GreedySolver, step by step
\* Mutant of AvailableObject: available = self.employees, the pool itself.
AvailableObject_alias == "employees"

\* available = set(self.employees): the object the name available refers to
\* is a new set, not the pool.
AvailableObject == "available"

\* Mutant of LoopCondition: the loop gives up with one employee left.
LoopCondition_one_left(uncovered, available) == DOMAIN uncovered # {} /\ Cardinality(available) > 1

\* while uncovered and available
LoopCondition(uncovered, available) == DOMAIN uncovered # {} /\ available # {}

\* GreedySolver.solve up to the while loop.
Greedy_solve(i) ==
    /\ call[i].class = "GreedySolver"
    /\ call[i].pc = "constructed"
    /\ call' = [call EXCEPT ![i] = [class |-> "GreedySolver", pc |-> "loop", selected |-> {}, available |-> employees,
                                      uncovered |-> requirements, total_cost |-> 0, best_employee |-> None]]
    /\ UNCHANGED <<attrs, employees_list, employees, requirements>>
    /\ UNCHANGED whole

\* The division of line 88 raises ZeroDivisionError for some employee the
\* loop of _select_best_employee reaches: one that covers something and
\* whose divisor is 0.
DivisionByZero(available, uncovered) ==
    \E employee \in available : covers_requirements(employee, uncovered) # {} /\ EfficiencyDenominator(employee) = 0

\* One iteration of the while loop that selects an employee (or the
\* exception of its division).
Greedy_iterate(i) ==
    /\ call[i].class = "GreedySolver"
    /\ call[i].pc = "loop"
    /\ LoopCondition(call[i].uncovered, call[i].available)
    /\ LET best_employee == _select_best_employee(call[i].available, call[i].uncovered)
       IN IF DivisionByZero(call[i].available, call[i].uncovered)
          THEN /\ call' = [call EXCEPT ![i] = [class |-> "GreedySolver", pc |-> "raised"]]
               /\ UNCHANGED employees
          ELSE /\ best_employee # None
               /\ call' = [call EXCEPT ![i].selected = call[i].selected \cup {best_employee},
                                       ![i].available = call[i].available \ {best_employee},
                                       ![i].total_cost = call[i].total_cost + best_employee.salary_per_hour,
                                       ![i].uncovered = RemoveCovered(best_employee, call[i].uncovered),
                                       ![i].best_employee = best_employee]
               /\ employees' = IF AvailableObject = "employees" THEN employees \ {best_employee} ELSE employees
    /\ UNCHANGED <<attrs, employees_list, requirements>>
    /\ UNCHANGED whole

\* The loop ends (its condition fails, or the break of line 42); the Solution
\* is built, stored and returned.
Greedy_finish(i) ==
    /\ call[i].class = "GreedySolver"
    /\ call[i].pc = "loop"
    /\ \/ ~LoopCondition(call[i].uncovered, call[i].available)
       \/ /\ ~DivisionByZero(call[i].available, call[i].uncovered)
          /\ _select_best_employee(call[i].available, call[i].uncovered) = None
    /\ LET is_valid == Cardinality(DOMAIN call[i].uncovered) = 0
           solution == Solution(call[i].selected, call[i].total_cost, is_valid)
       IN /\ attrs' = [attrs EXCEPT ![Self(i)].best_solution = solution]
          /\ call' = [call EXCEPT ![i] = ReturnValue("GreedySolver", solution)]
    /\ UNCHANGED <<employees_list, employees, requirements>>
    /\ UNCHANGED whole

GreedyStep(i) ==
    \/ Greedy_solve(i)
    \/ Greedy_iterate(i)
    \/ Greedy_finish(i)

\* One GreedySolver, step by step.
SpecGreedySteps == InitOneLevel /\ [][Construct(1, "GreedySolver") \/ GreedyStep(1)]_vars

\* One GreedySolver, step by step, with skills and requirements at any level.
SpecGreedyLevels == InitLevels /\ [][Construct(1, "GreedySolver") \/ GreedyStep(1)]_vars

\* ---- DPSolver and DPSolverOptimized, step by step
\* self._get_useful_employees() of the class.
UsefulOf(class) == IF class = "DPSolver" THEN _get_useful_employees ELSE _get_useful_employees_optimized

\* The tables of instance i, as _run_dp and _extract_solution read them.
Tables(i) == [dp |-> attrs[Self(i)].dp, parent |-> attrs[Self(i)].parent]

\* DPSolver.solve up to the loop over the employees in _run_dp, or to its
\* raise or early return.
DP_solve(i) ==
    /\ call[i].class \in DPClasses
    /\ call[i].pc = "constructed"
    /\ LET class == call[i].class
           num_requirements == Cardinality(DOMAIN requirements)
           useful_employees == UsefulOf(class)
       IN IF TooManyRequirements(num_requirements)
          THEN /\ call' = [call EXCEPT ![i].pc = "raised"]
               /\ UNCHANGED attrs
          ELSE IF num_requirements = 0
          THEN /\ attrs' = [attrs EXCEPT ![Self(i)].best_solution = Solution({}, 0, TRUE)]
               /\ call' = [call EXCEPT ![i] = ReturnValue(class, Solution({}, 0, TRUE))]
          ELSE IF Len(useful_employees) = 0
          THEN /\ attrs' = [attrs EXCEPT ![Self(i)].skill_to_bit = InitSkillToBit,
                                         ![Self(i)].full_mask = InitFullMask,
                                         ![Self(i)].employee_masks = UsefulMasks,
                                         ![Self(i)].best_solution = SolutionInvalid]
               /\ call' = [call EXCEPT ![i] = ReturnValue(class, SolutionInvalid)]
          ELSE /\ attrs' = [attrs EXCEPT ![Self(i)].skill_to_bit = InitSkillToBit,
                                         ![Self(i)].full_mask = InitFullMask,
                                         ![Self(i)].employee_masks = UsefulMasks,
                                         ![Self(i)].dp = InitialTables(InitFullMask).dp,
                                         ![Self(i)].parent = InitialTables(InitFullMask).parent]
               /\ call' = [call EXCEPT ![i] = [class |-> class, pc |-> "run_dp", employees |-> useful_employees, k |-> 1]]
    /\ UNCHANGED <<employees_list, employees, requirements>>
    /\ UNCHANGED whole

\* One iteration of the outer loop of _run_dp: the pass over the states for
\* the k-th useful employee.
DP_pass(i) ==
    /\ call[i].class \in DPClasses
    /\ call[i].pc = "run_dp"
    /\ call[i].k <= Len(call[i].employees)
    /\ LET pair == call[i].employees[call[i].k]
           t == DPPass(Tables(i), pair[1], pair[2], attrs[Self(i)].full_mask)
       IN attrs' = [attrs EXCEPT ![Self(i)].dp = t.dp, ![Self(i)].parent = t.parent]
    /\ call' = [call EXCEPT ![i].k = call[i].k + 1]
    /\ UNCHANGED <<employees_list, employees, requirements>>
    /\ UNCHANGED whole

\* _run_dp is over: return self._extract_solution().
DP_extract(i) ==
    /\ call[i].class \in DPClasses
    /\ call[i].pc = "run_dp"
    /\ call[i].k > Len(call[i].employees)
    /\ LET solution == _extract_solution(Tables(i), attrs[Self(i)].full_mask)
       IN /\ attrs' = [attrs EXCEPT ![Self(i)].best_solution = solution]
          /\ call' = [call EXCEPT ![i] = ReturnValue(call[i].class, solution)]
    /\ UNCHANGED <<employees_list, employees, requirements>>
    /\ UNCHANGED whole

DPStepOf(i) ==
    \/ DP_solve(i)
    \/ DP_pass(i)
    \/ DP_extract(i)

\* One DPSolver or DPSolverOptimized, step by step, with skills and
\* requirements at any level.
SpecDPSteps == InitLevels /\ [][(\E class \in DPClasses : Construct(1, class)) \/ DPStepOf(1)]_vars

\* ---- OracleSolver, step by step
\* OracleSolver.solve up to its loops.
Oracle_solve(i) ==
    /\ call[i].class = "OracleSolver"
    /\ call[i].pc = "constructed"
    /\ call' = [call EXCEPT ![i] = [class |-> "OracleSolver", pc |-> "subsets", k |-> 1, best_cost |-> Inf, best_solution |-> {}]]
    /\ UNCHANGED <<attrs, employees_list, employees, requirements>>
    /\ UNCHANGED whole

\* The body of the inner loop for the k-th subset of the enumeration.
Oracle_subset(i) ==
    /\ call[i].class = "OracleSolver"
    /\ call[i].pc = "subsets"
    /\ call[i].k <= Len(SubsetOrder[Len(employees_list)])
    /\ LET b == OracleStep(SubsetOrder[Len(employees_list)][call[i].k], [best_cost |-> call[i].best_cost, best_solution |-> call[i].best_solution])
       IN call' = [call EXCEPT ![i].k = call[i].k + 1, ![i].best_cost = b.best_cost, ![i].best_solution = b.best_solution]
    /\ UNCHANGED <<attrs, employees_list, employees, requirements>>
    /\ UNCHANGED whole

\* The loops are over: self.best_solution = best_solution; return it.
Oracle_return(i) ==
    /\ call[i].class = "OracleSolver"
    /\ call[i].pc = "subsets"
    /\ call[i].k > Len(SubsetOrder[Len(employees_list)])
    /\ attrs' = [attrs EXCEPT ![Self(i)].best_solution = call[i].best_solution]
    /\ call' = [call EXCEPT ![i] = ReturnValue("OracleSolver", call[i].best_solution)]
    /\ UNCHANGED <<employees_list, employees, requirements>>
    /\ UNCHANGED whole

OracleStepOf(i) ==
    \/ Oracle_solve(i)
    \/ Oracle_subset(i)
    \/ Oracle_return(i)

\* Any step of the solve() of instance i.
Step(i) ==
    \/ BacktrackStep(i)
    \/ GreedyStep(i)
    \/ DPStepOf(i)
    \/ OracleStepOf(i)

\* What solve() of the class returns when nothing else runs; "raised" for
\* the ValueError of the DP classes.
Alone(class) ==
    CASE class = "BacktrackSolver" -> BacktrackSolve
      [] class = "GreedySolver" -> GreedySolve
      [] class = "OracleSolver" -> OracleSolve
      [] class = "DPSolver" -> IF DPSolve.pc = "raised" THEN "raised" ELSE DPSolve.best_solution
      [] class = "DPSolverOptimized" -> IF DPOptimizedSolve.pc = "raised" THEN "raised" ELSE DPOptimizedSolve.best_solution

\* The pools and clients of the single-instance runs: the one-level ones, and
\* pools with a client of more than MAX_REQUIREMENTS requirements.
InitSteps ==
    /\ \E n \in 0..MaxEmployees : employees_list \in EmployeesOneLevel(n)
    /\ requirements \in OneLevelMaps \cup {ManyRequirements(MAX_REQUIREMENTS + 1, MAX_LEVEL)}
    /\ Constructed

\* One solver of any class, step by step.
SpecSteps == InitSteps /\ [][(\E class \in Classes : Construct(1, class)) \/ Step(1)]_vars

\* ---- two instances, interleaved
\* The workers of Scenario A of the documentation, its costs 10, 8 and 25
\* scaled to 2, 1 and 5: one per requirement and a dearer one for both.
ScenarioA ==
    {[id |-> 1, salary_per_hour |-> 2, skills |-> [skill \in {"Python"} |-> MAX_LEVEL]],
     [id |-> 2, salary_per_hour |-> 1, skills |-> [skill \in {"Java"} |-> MAX_LEVEL]],
     [id |-> 3, salary_per_hour |-> 5, skills |-> [skill \in {"Python", "Java"} |-> MAX_LEVEL]]}

\* Any of these workers in any iteration order, and any one-level client.
InitInterleaved ==
    /\ \E pool \in SUBSET ScenarioA : employees_list \in Orders(pool)
    /\ requirements \in OneLevelMaps
    /\ Constructed

\* Two solvers of any classes over one pool and one client, constructed and
\* solved step by step in any interleaving.
SpecInterleaved == InitInterleaved /\ [][\E i \in Instances : (\E class \in Classes : Construct(i, class)) \/ Step(i)]_vars

\* One solver of any class, step by step, over the same pools and clients;
\* a solve() that was called keeps running (nothing else runs in
\* its thread and nothing can cancel it).
SpecStepsFair == InitInterleaved /\ [][(\E class \in Classes : Construct(1, class)) \/ Step(1)]_vars /\ WF_call(Step(1))

\* ------------------------------------------------------------- reference
\* What the problem statement asks for, stated without the solvers' helpers.
Satisfies(emps) == \A skill \in DOMAIN requirements : \E e \in emps : skill \in DOMAIN e.skills /\ e.skills[skill] >= requirements[skill]

RECURSIVE SumOfSalaries(_)
SumOfSalaries(emps) ==
    IF emps = {} THEN 0
    ELSE LET e == CHOOSE x \in emps : TRUE
         IN e.salary_per_hour + SumOfSalaries(emps \ {e})

CompleteCovers == {c \in SUBSET employees : Satisfies(c)}

Feasible == \E c \in SUBSET employees : Satisfies(c)

\* The minimum, over the subsets of the pool that cover every requirement,
\* of the sum of hourly costs (only used when Feasible).
MinCoverCost ==
    LET costs == {SumOfSalaries(c) : c \in CompleteCovers}
    IN CHOOSE m \in costs : \A k \in costs : m <= k

Returned(name) == pc = "returned" /\ solver = name

\* The solver classes whose solve returns a Solution record.
SolutionSolvers == {"BacktrackSolver", "DPSolver", "DPSolverOptimized", "GreedySolver"}

ReturnedSolution == pc = "returned" /\ solver \in SolutionSolvers

\* ------------------------------------------------------------------ claims
\* C1: on every instance that has a complete cover, BacktrackSolver.solve
\* returns a Solution whose total_cost is the minimum cost of a complete cover.
C1_BacktrackOptimal == (Returned("BacktrackSolver") /\ Feasible) => best_solution.total_cost = MinCoverCost

\* A feasible instance with two requirements where a dearer complete cover
\* exists and the optimum costs something.
C1_Witness ==
    /\ Returned("BacktrackSolver")
    /\ Feasible
    /\ Cardinality(DOMAIN requirements) = 2
    /\ best_solution.total_cost = MinCoverCost
    /\ best_solution.total_cost > 0
    /\ \E c \in CompleteCovers : SumOfSalaries(c) > MinCoverCost

\* C2: on every instance (at most 20 requirements) that has a complete cover,
\* DPSolver.solve returns a Solution whose total_cost is the minimum cost of
\* a complete cover, and whenever the DP ran that value is dp[full_mask].
C2_DPOptimal ==
    (Returned("DPSolver") /\ Feasible) =>
        /\ best_solution.total_cost = MinCoverCost
        /\ (DOMAIN requirements # {} => (DOMAIN dp = 0..full_mask /\ dp[full_mask] = MinCoverCost))

\* The DP ran over two requirement bits, both employees are needed and
\* neither is free.
C2_Witness ==
    /\ Returned("DPSolver")
    /\ Feasible
    /\ full_mask = 3
    /\ dp[full_mask] = MinCoverCost
    /\ Cardinality(best_solution.employees) = 2
    /\ \A e \in best_solution.employees : e.salary_per_hour > 0

\* C3: on every instance DPSolverOptimized.solve returns a Solution with the
\* total_cost and the is_valid of the Solution DPSolver.solve returns.
C3_OptimizedEquivalent ==
    Returned("DPSolverOptimized") =>
        LET plain == DPSolve.best_solution
        IN /\ best_solution.total_cost = plain.total_cost
           /\ best_solution.is_valid = plain.is_valid

\* The pre-filter dropped an employee and the instance is feasible.
C3_Witness ==
    /\ Returned("DPSolverOptimized")
    /\ best_solution.is_valid
    /\ Len(_get_useful_employees_optimized) < Len(_get_useful_employees)
    /\ best_solution.total_cost = DPSolve.best_solution.total_cost
    /\ best_solution.total_cost > 0

\* C4 (as claimed): when no subset of the pool covers all requirements,
\* every solver returns the invalid sentinel: empty selection, cost
\* +infinity, is_valid false. (OracleSolver returns a bare set, never a
\* Solution.)
C4_AllReturnSentinel == (pc = "returned" /\ ~Feasible) => (solver \in SolutionSolvers /\ best_solution = SolutionInvalid)

\* C5: BacktrackSolver, DPSolver and DPSolverOptimized never raise for
\* infeasibility, return is_valid = false exactly when no subset of the pool
\* covers all requirements, and then return the invalid sentinel.
ExactSolvers == {"BacktrackSolver", "DPSolver", "DPSolverOptimized"}

C5_ExactInfeasible ==
    (solver \in ExactSolvers) =>
        /\ pc = "returned"
        /\ best_solution.is_valid = Feasible
        /\ (~Feasible => best_solution = SolutionInvalid)

\* An infeasible instance whose pool still covers one of two requirements,
\* solved by an exact solver.
C5_Witness ==
    /\ solver \in ExactSolvers
    /\ pc = "returned"
    /\ ~Feasible
    /\ best_solution = SolutionInvalid
    /\ \E e \in employees : \E skill \in DOMAIN requirements : has_skill(e, skill, requirements[skill])

\* C6 (as claimed): with an empty requirement set every solver, for any
\* pool, returns a valid Solution with an empty selection and total cost 0.
C6_EmptyRequirements ==
    (pc = "returned" /\ DOMAIN requirements = {}) =>
        IF solver \in SolutionSolvers
        THEN best_solution = Solution({}, 0, TRUE)
        ELSE best_solution = {}

\* C7 (as claimed): when GreedySolver returns a valid Solution its total_cost
\* is at least the minimum cost of a complete cover, which is the cost of
\* the subset OracleSolver returns.
C7_GreedyNotBelowOptimum ==
    (Returned("GreedySolver") /\ best_solution.is_valid) =>
        /\ best_solution.total_cost >= MinCoverCost
        /\ best_solution.total_cost >= calculate_cost(OracleSolve)

\* C8: for every Solution returned by BacktrackSolver, DPSolver,
\* DPSolverOptimized or GreedySolver, is_valid holds exactly when every
\* requirement is satisfied by a selected employee at the required level.
C8_ValidIffCovered == ReturnedSolution => (best_solution.is_valid <=> Satisfies(best_solution.employees))

C8_Witness ==
    /\ ReturnedSolution
    /\ best_solution.is_valid
    /\ Cardinality(DOMAIN requirements) = 2
    /\ Cardinality(best_solution.employees) = 2
    /\ \E e \in best_solution.employees : \E skill \in DOMAIN requirements :
          skill \in DOMAIN e.skills /\ e.skills[skill] < requirements[skill]

\* C9: every valid Solution returned has total_cost equal to the sum of the
\* hourly costs of the employees of its selection; for the DP solvers that
\* sum is dp[full_mask] whenever the table was built.
C9_CostIsSum ==
    (ReturnedSolution /\ best_solution.is_valid) =>
        /\ best_solution.total_cost = SumOfSalaries(best_solution.employees)
        /\ ((solver \in {"DPSolver", "DPSolverOptimized"} /\ DOMAIN requirements # {}) =>
                dp[full_mask] = SumOfSalaries(best_solution.employees))

C9_Witness ==
    /\ Returned("DPSolver")
    /\ best_solution.is_valid
    /\ Cardinality(best_solution.employees) = 2
    /\ \A e \in best_solution.employees : e.salary_per_hour > 0
    /\ dp[full_mask] = SumOfSalaries(best_solution.employees)

\* What a returned value selects: the employees of a Solution, or the bare
\* set OracleSolver returns.
Selection == IF solver \in SolutionSolvers THEN best_solution.employees ELSE best_solution

\* C10: the selection every solver returns is a subset of the pool given at
\* construction, and holds no employee twice (no two members share an id).
C10_SelectionInPool ==
    (pc = "returned") =>
        /\ Selection \subseteq employees
        /\ \A a \in Selection : \A b \in Selection : a.id = b.id => a = b

C10_Witness ==
    /\ pc = "returned"
    /\ Cardinality(Selection) = 2
    /\ Selection = employees

\* C12: DPSolver.solve and DPSolverOptimized.solve raise exactly when there
\* are more than MAX_REQUIREMENTS (20) requirements, and when they raise no
\* bit assignment, employee mask, dp table or parent table has been built and
\* best_solution is what the constructor left.
C12_RaisesBeforeComputation ==
    (solver \in {"DPSolver", "DPSolverOptimized"}) =>
        /\ (pc = "raised") <=> (Cardinality(DOMAIN requirements) > MAX_REQUIREMENTS)
        /\ (pc = "raised") =>
              /\ skill_to_bit = <<>>
              /\ employee_masks = <<>>
              /\ full_mask = 0
              /\ dp = <<>>
              /\ parent = <<>>
              /\ best_solution = SolutionInvalid

\* solve raised on 21 requirements although the pool has employees that
\* cover some of them.
C12_Witness ==
    /\ pc = "raised"
    /\ solver \in {"DPSolver", "DPSolverOptimized"}
    /\ Cardinality(DOMAIN requirements) = MAX_REQUIREMENTS + 1
    /\ \E e \in employees : covers_requirements(e, requirements) # {}

\* solve returned on exactly 20 requirements.
C12_WitnessAtLimit ==
    /\ pc = "returned"
    /\ solver \in {"DPSolver", "DPSolverOptimized"}
    /\ Cardinality(DOMAIN requirements) = MAX_REQUIREMENTS
    /\ full_mask = 1048575

\* --------------------------------------- the pre-filter of DPSolverOptimized
\* The requirements an employee satisfies (what its coverage mask encodes).
Coverage(e) == {skill \in DOMAIN requirements : skill \in DOMAIN e.skills /\ e.skills[skill] >= requirements[skill]}

UsefulWorkers == {e \in employees : Coverage(e) # {}}

\* Where the pool's iteration meets an employee.
Position(e) == CHOOSE i \in 1..Len(employees_list) : employees_list[i] = e

\* The useful employees with the coverage of e.
MaskGroup(e) == {o \in UsefulWorkers : Coverage(o) = Coverage(e)}

\* e is the cheapest of its group, the first met among equally cheap ones.
CheapestOfMask(e) ==
    \A o \in MaskGroup(e) :
        \/ e.salary_per_hour < o.salary_per_hour
        \/ (e.salary_per_hour = o.salary_per_hour /\ Position(e) <= Position(o))

\* Some other useful employee of the pool covers all e covers at no higher
\* salary, one of the two strictly.
DominatedInPool(e) ==
    \E b \in UsefulWorkers :
        /\ b # e
        /\ Coverage(e) \subseteq Coverage(b)
        /\ b.salary_per_hour <= e.salary_per_hour
        /\ (Coverage(b) # Coverage(e) \/ b.salary_per_hour < e.salary_per_hour)

\* The employees DPSolverOptimized hands to _run_dp.
PassedWorkers == {_get_useful_employees_optimized[k][1] : k \in 1..Len(_get_useful_employees_optimized)}

\* C17 (as claimed): of the useful employees of one coverage mask exactly one
\* is passed to the DP, the cheapest of them (the first met among equals).
C17_OnePerMask ==
    Returned("DPSolverOptimized") =>
        LET passed == PassedWorkers
        IN \A e \in UsefulWorkers :
               /\ Cardinality(MaskGroup(e) \cap passed) = 1
               /\ \A o \in MaskGroup(e) \cap passed : CheapestOfMask(o)

\* C17 (amended): of the useful employees of one coverage mask at most one is
\* passed to the DP, and it is the cheapest of them (the first met among
\* equals); none is passed exactly when some useful employee of a strictly
\* larger coverage costs no more than that cheapest one. No employee is
\* passed twice.
C17_AtMostCheapestPerMask ==
    Returned("DPSolverOptimized") =>
        LET useful_employees == _get_useful_employees_optimized
            passed == {useful_employees[k][1] : k \in 1..Len(useful_employees)}
        IN /\ Len(useful_employees) = Cardinality(passed)
           /\ \A e \in UsefulWorkers :
                 /\ Cardinality(MaskGroup(e) \cap passed) <= 1
                 /\ \A o \in MaskGroup(e) \cap passed : CheapestOfMask(o)
                 /\ (MaskGroup(e) \cap passed = {}) <=>
                       \E b \in UsefulWorkers :
                           /\ Coverage(e) \subseteq Coverage(b)
                           /\ Coverage(b) # Coverage(e)
                           /\ \A o \in MaskGroup(e) : b.salary_per_hour <= o.salary_per_hour

\* Two employees of one coverage, the dearer one met first: the cheaper one
\* replaced it and is the one passed (Scenario D with the dear one first).
C17_Witness ==
    /\ Returned("DPSolverOptimized")
    /\ \E e \in PassedWorkers : \E o \in MaskGroup(e) :
          /\ o.salary_per_hour > e.salary_per_hour
          /\ Position(o) < Position(e)
          /\ o \notin PassedWorkers
    /\ best_solution.is_valid

\* C18: no employee passed to the DP is dominated by another useful employee
\* of the pool, and every useful employee that is not dominated and is the
\* cheapest (first met among equals) of its coverage mask is passed.
C18_NonDominatedKept ==
    Returned("DPSolverOptimized") =>
        LET passed == PassedWorkers
        IN /\ \A e \in passed : e \in UsefulWorkers /\ ~DominatedInPool(e)
           /\ \A e \in UsefulWorkers : (~DominatedInPool(e) /\ CheapestOfMask(e)) => e \in passed

\* A useful employee was discarded for a cheaper-or-equal one that covers
\* strictly more, and a cheaper employee with a smaller coverage was kept
\* next to a dearer one with a larger coverage.
C18_Witness ==
    /\ Returned("DPSolverOptimized")
    /\ \E e \in UsefulWorkers \ PassedWorkers : \E b \in PassedWorkers :
          Coverage(e) \subseteq Coverage(b) /\ Coverage(b) # Coverage(e) /\ b.salary_per_hour <= e.salary_per_hour
    /\ \E e \in PassedWorkers : \E b \in PassedWorkers :
          Coverage(e) \subseteq Coverage(b) /\ Coverage(b) # Coverage(e) /\ e.salary_per_hour < b.salary_per_hour

\* ------------------------------------------------------------ OracleSolver
\* Where the enumeration of OracleSolver.solve meets the non-empty subset c.
EnumerationIndex(c) ==
    LET order == SubsetOrder[Len(employees_list)]
    IN CHOOSE k \in 1..Len(order) : {employees_list[order[k][j]] : j \in 1..Len(order[k])} = c

\* The complete covers of minimum cost.
MinimumCovers == {c \in CompleteCovers : SumOfSalaries(c) = MinCoverCost}

\* C19 (as claimed): on a feasible instance OracleSolver.solve returns a
\* complete cover of minimum total cost, and among the complete covers of
\* that cost the first one its enumeration (non-empty subsets by increasing
\* size) meets, hence one of smallest cardinality.
C19_OracleFirstMinimum ==
    (Returned("OracleSolver") /\ Feasible) =>
        /\ best_solution \in MinimumCovers
        /\ \A c \in MinimumCovers : Cardinality(best_solution) <= Cardinality(c)
        /\ \A c \in MinimumCovers \ {{}} : EnumerationIndex(best_solution) <= EnumerationIndex(c)

\* The same with the minimum taken over the subsets solve enumerates, the
\* non-empty ones: this is what the code computes on every instance that has
\* a non-empty complete cover.
OracleFirstMinimumOfEnumerated ==
    (Returned("OracleSolver") /\ CompleteCovers \ {{}} # {}) =>
        LET enumerated == CompleteCovers \ {{}}
            least == {c \in enumerated : \A o \in enumerated : SumOfSalaries(c) <= SumOfSalaries(o)}
        IN /\ best_solution \in least
           /\ \A c \in least : Cardinality(best_solution) <= Cardinality(c)
           /\ \A c \in least : EnumerationIndex(best_solution) <= EnumerationIndex(c)

\* ------------------------------------------------- two instances in a row
\* The cost of what a solver returned: total_cost of a Solution, the summed
\* salaries of the bare set OracleSolver returns.
ResultCost(class, result) == IF class \in SolutionSolvers THEN result.total_cost ELSE SumOfSalaries(result)

\* C11 (as claimed): two freshly constructed solvers of one class over the
\* same employees and requirements return the same total cost, whatever the
\* order their pools are iterated in, GreedySolver with tied efficiencies
\* included.
C11_SameCostAnyOrder ==
    (pc = "returned" /\ earlier # None /\ earlier.solver = solver) =>
        ResultCost(solver, best_solution) = ResultCost(earlier.solver, earlier.result)

\* The same for every class but GreedySolver: the exact solvers and
\* OracleSolver return one cost in every iteration order.
SameCostAnyOrderExact ==
    (pc = "returned" /\ earlier # None /\ earlier.solver = solver /\ solver # "GreedySolver") =>
        ResultCost(solver, best_solution) = ResultCost(earlier.solver, earlier.result)
\* ------------------------------------------------- BacktrackSolver, stepwise
\* Instance 1 is inside BacktrackSolver.solve.
Backtracking == call[1].class = "BacktrackSolver" /\ call[1].pc = "backtrack"

\* A call of _backtrack is about to run its first line.
Entering == Backtracking /\ call[1].stack # <<>> /\ Top(call[1].stack).at = "enter"

\* C20: during BacktrackSolver.solve, best_solution is only ever replaced by
\* the current partial selection, and only when that selection is a complete
\* cover whose accumulated cost (the sum of its workers' costs) is strictly
\* lower than the previous best cost, which is +infinity at first; so the best
\* cost never increases.  A call entered with an accumulated cost >= the
\* current best cost returns at once: it records nothing, selects nobody and
\* calls nothing.
C20_BestOnlyImproves ==
    [][LET before == attrs[1].best_solution
           after == attrs'[1].best_solution
           selected == call[1].selected
       IN /\ (call[1].pc = "constructed" /\ call[1].class = "BacktrackSolver") => before.total_cost = Inf
          /\ Backtracking =>
                /\ after.total_cost <= before.total_cost
                /\ after # before =>
                      /\ Entering
                      /\ Satisfies(selected)
                      /\ after = Solution(selected, SumOfSalaries(selected), TRUE)
                      /\ after.total_cost < before.total_cost
          /\ (Entering /\ SumOfSalaries(selected) >= before.total_cost) =>
                /\ after = before
                /\ call'[1].selected = selected
                /\ call'[1].stack = Pop(call[1].stack)]_vars

\* A branch was abandoned for its cost, with workers selected, after a
\* complete cover had been recorded.
C20_Witness ==
    /\ Backtracking
    /\ call[1].left_by = "cost"
    /\ call[1].selected # {}
    /\ attrs[1].best_solution.is_valid
    /\ attrs[1].best_solution.total_cost < Inf
    /\ SumOfSalaries(call[1].selected) >= attrs[1].best_solution.total_cost

\* ---------------------------------------------------- GreedySolver, stepwise
\* Instance 1 is inside the while loop of GreedySolver.solve.
GreedyRunning == call[1].class = "GreedySolver" /\ call[1].pc = "loop"

\* The requirements no worker of sel satisfies.
StillUncovered(sel) == {skill \in DOMAIN requirements : ~\E e \in sel : skill \in DOMAIN e.skills /\ e.skills[skill] >= requirements[skill]}

\* The still-uncovered requirements worker e satisfies.
NewlySatisfied(e, sel) == {skill \in StillUncovered(sel) : skill \in DOMAIN e.skills /\ e.skills[skill] >= requirements[skill]}

\* The workers not yet chosen that satisfy at least one uncovered requirement.
Candidates(sel) == {e \in employees \ sel : NewlySatisfied(e, sel) # {}}

\* count(a) / cost(a) >= count(b) / cost(b) for non-negative costs, a zero
\* cost giving an infinite ratio.
RatioAtLeast(a, b, sel) == Cardinality(NewlySatisfied(a, sel)) * b.salary_per_hour >= Cardinality(NewlySatisfied(b, sel)) * a.salary_per_hour

\* C15: in every iteration of GreedySolver.solve, the chosen worker is an
\* available worker satisfying at least one uncovered requirement whose ratio
\* (uncovered requirements it satisfies) / hourly cost is the largest among
\* such workers, whatever the costs (>= 0, costs below 1 included).
C15_MaximizesRatio ==
    [][(GreedyRunning /\ call'[1].pc = "loop") =>
          LET sel == call[1].selected
              chosen == call'[1].best_employee
          IN /\ chosen \in Candidates(sel)
             /\ \A e \in Candidates(sel) : RatioAtLeast(chosen, e, sel)]_vars

\* The same with every candidate's cost at least 1: there the choice does
\* maximize the ratio.
MaximizesRatioFromOne ==
    [][(GreedyRunning /\ call'[1].pc = "loop" /\ \A e \in Candidates(call[1].selected) : e.salary_per_hour >= 1) =>
          LET sel == call[1].selected
              chosen == call'[1].best_employee
          IN /\ chosen \in Candidates(sel)
             /\ \A e \in Candidates(sel) : RatioAtLeast(chosen, e, sel)]_vars

\* C16: GreedySolver.solve leaves its loop and returns exactly when no
\* requirement is uncovered or no remaining worker satisfies an uncovered
\* requirement, and otherwise selects one more worker; what it returns is the
\* Solution of the workers accumulated so far, with their summed cost, valid
\* exactly when no requirement is uncovered (so is_valid is false on failure).
C16_StopsExactly ==
    [][GreedyRunning =>
          LET sel == call[1].selected
              success == StillUncovered(sel) = {}
              failure == ~success /\ Candidates(sel) = {}
          IN /\ call'[1].pc = "returned" <=> (success \/ failure)
             /\ call'[1].pc # "returned" => call'[1].pc = "loop" /\ Cardinality(call'[1].selected) = Cardinality(sel) + 1
             /\ call'[1].pc = "returned" =>
                   /\ call'[1].result = Solution(sel, SumOfSalaries(sel), success)
                   /\ attrs'[1].best_solution = call'[1].result]_vars

\* GreedySolver returned a failure that carries a worker and its cost.
C16_Witness ==
    /\ call[1].class = "GreedySolver"
    /\ call[1].pc = "returned"
    /\ ~call[1].result.is_valid
    /\ call[1].result.employees # {}
    /\ call[1].result.total_cost > 0
    /\ call[1].result.total_cost < Inf

\* --------------------------------------------------- the inputs of a solver
\* C13: no step of any solver's solve() modifies the inputs: from
\* construction to the return (or the raise), the worker pool holds the same
\* workers with the same costs and skill levels, and the requirement mapping
\* the same entries.
C13_InputsUnmodified == [][employees' = employees /\ requirements' = requirements]_vars

\* GreedySolver has returned workers it took out of its available set, and
\* they are still in the pool.
C13_Witness ==
    /\ call[1].class = "GreedySolver"
    /\ call[1].pc = "returned"
    /\ call[1].result.employees # {}
    /\ call[1].result.employees \subseteq employees
    /\ employees = {employees_list[i] : i \in 1..Len(employees_list)}

\* A DP solver has raised over a non-empty pool.
C13_WitnessRaised == call[1].pc = "raised" /\ employees # {} /\ Cardinality(DOMAIN requirements) > MAX_REQUIREMENTS

\* ------------------------------------------------- two instances, interleaved
\* C14: with the steps of two solver instances interleaved in any way, a
\* step of one instance changes neither the attributes (best_solution, dp,
\* parent, masks) nor the locals (selection, stack, counters) of the other,
\* and each instance returns what solve() of its class returns when it runs
\* alone on the same pool and client.
C14_NoInterference ==
    [][\A i \in Instances :
          /\ call'[i] # call[i] => \A j \in Instances \ {i} : call'[j] = call[j] /\ attrs'[j] = attrs[j]
          /\ call'[i].pc = "returned" => call'[i].result = Alone(call'[i].class)]_vars

\* Both instances are in the middle of solve(): BacktrackSolver has recorded
\* a cover and still has calls on its stack, DPSolver has done a pass and
\* has another one to do.
C14_Witness ==
    /\ call[1].class = "BacktrackSolver"
    /\ call[1].pc = "backtrack"
    /\ call[1].stack # <<>>
    /\ attrs[1].best_solution.is_valid
    /\ call[2].class = "DPSolver"
    /\ call[2].pc = "run_dp"
    /\ call[2].k > 1
    /\ call[2].k <= Len(call[2].employees)

\* ------------------------------------------- the two branches of _backtrack
\* The worker the running call of _backtrack is about.
Current == employees_list[Top(call[1].stack).pos]

\* The running call goes past its four early returns.
Branching == Entering /\ Len(call'[1].stack) > Len(call[1].stack)

\* The workers of emps that come before e in the fixed list.
Before(e, emps) == {x \in emps : Position(x) < Position(e)}

\* Each worker of emps covers a requirement the workers of emps before it in
\* the list do not cover.
EachAddsCoverage(emps) == \A e \in emps : NewlySatisfied(e, Before(e, emps)) # {}

\* C21: a call of _backtrack that reaches its branches explores the include
\* branch of the worker at pos exactly when that worker satisfies at least
\* one requirement the current selection does not cover, and then explores
\* it first: the exclude branch is called when the include branch has
\* returned, or at once when there is no include branch.  So in every
\* recorded solution each selected worker, in list order, covers a
\* requirement the selected workers before it do not cover.
C21_IncludeWhenUseful ==
    [][/\ Branching =>
             LET useful == NewlySatisfied(Current, call[1].selected) # {}
                 included == call'[1].left_by = "include" /\ call'[1].selected = call[1].selected \cup {Current}
                 excluded == call'[1].left_by = "exclude" /\ call'[1].selected = call[1].selected
             IN /\ included <=> useful
                /\ excluded <=> ~useful
                /\ Top(call'[1].stack).pos = Top(call[1].stack).pos + 1
       /\ (Backtracking /\ call[1].stack # <<>> /\ Top(call[1].stack).at = "included") =>
             /\ call'[1].left_by = "exclude"
             /\ call'[1].selected = call[1].selected \ {Current}
             /\ Top(call'[1].stack).pos = Top(call[1].stack).pos + 1
       /\ (Backtracking /\ attrs'[1].best_solution.is_valid) => EachAddsCoverage(attrs'[1].best_solution.employees)]_vars

\* A solution of two workers has just been recorded through two include
\* branches, the second worker covering a requirement the first one covers
\* too.
C21_Witness ==
    /\ Backtracking
    /\ call[1].left_by = "complete"
    /\ Cardinality(attrs[1].best_solution.employees) = 2
    /\ \E e \in attrs[1].best_solution.employees : Cardinality(Coverage(e)) = 2

\* ------------------------------------------------- the feasibility pruning
\* The workers at the position of the running call and after it.
Remaining == {employees_list[k] : k \in Top(call[1].stack).pos..Len(employees_list)}

\* Some requirement the selection leaves uncovered is satisfied by no
\* remaining worker.
Hopeless == \E skill \in StillUncovered(call[1].selected) : \A e \in Remaining : skill \notin Coverage(e)

\* C22: a call of _backtrack reaches the feasibility test exactly when its
\* cost is below the best cost, its selection is not a complete cover and a
\* worker is left at pos; there it abandons the branch exactly when some
\* uncovered requirement is satisfied by no worker at index >= pos, and an
\* abandoned branch has no complete cover among the selections extending the
\* current one by remaining workers.
C22_PrunesOnlyHopeless ==
    [][Entering =>
          LET tested == call'[1].left_by \in {"infeasible", "include", "exclude"}
              pruned == call'[1].left_by = "infeasible"
          IN /\ tested <=> /\ SumOfSalaries(call[1].selected) < attrs[1].best_solution.total_cost
                           /\ ~Satisfies(call[1].selected)
                           /\ Top(call[1].stack).pos <= Len(employees_list)
             /\ tested => (pruned <=> Hopeless)
             /\ pruned => /\ ~\E more \in SUBSET Remaining : Satisfies(call[1].selected \cup more)
                          /\ call'[1].stack = Pop(call[1].stack)
                          /\ call'[1].selected = call[1].selected
                          /\ attrs'[1] = attrs[1]]_vars

\* A branch below the root has been abandoned as infeasible on an instance
\* that has a complete cover.
C22_Witness ==
    /\ Backtracking
    /\ call[1].left_by = "infeasible"
    /\ call[1].stack # <<>>
    /\ Feasible
    /\ attrs[1].best_solution.is_valid

\* ------------------------------------------------ the shared selected set
\* The workers the calls below the running one have added and not yet
\* removed: what selected held when the running call was entered.
HeldAtEntry(stack) == {employees_list[stack[k].pos] : k \in {j \in 1..(Len(stack) - 1) : stack[j].at = "included"}}

\* C23: when a call of _backtrack is entered, selected holds the workers
\* added by the calls below it; no step changes those calls; and at every
\* return, early or not, selected holds those workers again.  A recorded
\* best solution changes only by a new recording: adding to or removing from
\* selected leaves it as it is.
C23_SelectedRestored ==
    [][(Backtracking /\ call[1].stack # <<>>) =>
          LET stack == call[1].stack
              after == call'[1].stack
              returns == Len(after) < Len(stack)
              calls == Len(after) > Len(stack)
          IN /\ Entering => call[1].selected = HeldAtEntry(stack)
             /\ SubSeq(after, 1, Len(stack) - 1) = SubSeq(stack, 1, Len(stack) - 1)
             /\ returns => /\ after = Pop(stack)
                           /\ call'[1].selected = HeldAtEntry(stack)
             /\ calls => /\ Len(after) = Len(stack) + 1
                         /\ call'[1].selected = HeldAtEntry(after)
             /\ call'[1].left_by # "complete" => attrs'[1].best_solution = attrs[1].best_solution]_vars

\* The outermost call has returned after an include branch two calls deep,
\* with a recorded solution: selected is empty again.
C23_Witness ==
    /\ Backtracking
    /\ call[1].stack = <<>>
    /\ call[1].selected = {}
    /\ Cardinality(attrs[1].best_solution.employees) = 2
    /\ attrs[1].best_solution.is_valid

\* ------------------------------------------------------- the table of _run_dp
\* The requirements whose bits are set in mask.
RequirementsOf(mask) == {skill \in DOMAIN requirements : (mask \div Shl1(SkillBit(skill))) % 2 = 1}

\* The requirements the workers of c satisfy between them.
CoveredBy(c) == UNION {Coverage(e) : e \in c}

\* The least element of a set of costs, Inf for the empty set.
MinOrInf(costs) == IF costs = {} THEN Inf ELSE CHOOSE m \in costs : \A k \in costs : m <= k

\* DPSolver has returned after running _run_dp.
TableBuilt == Returned("DPSolver") /\ DOMAIN requirements # {} /\ UsefulWorkers # {}

\* C24: after _run_dp has processed all useful workers, dp has an entry for
\* every mask in 0..full_mask, dp[0] = 0, and dp[mask] is the minimum cost of
\* a set of useful workers satisfying at least the requirements whose bits
\* are set in mask (Inf when there is none).
C24_TableCoversAtLeast ==
    TableBuilt =>
        /\ DOMAIN dp = 0..full_mask
        /\ dp[0] = 0
        /\ \A mask \in 0..full_mask :
              dp[mask] = MinOrInf({SumOfSalaries(c) : c \in {x \in SUBSET UsefulWorkers : RequirementsOf(mask) \subseteq CoveredBy(x)}})

\* What the table does hold: dp[mask] is the minimum cost of a set of useful
\* workers satisfying exactly the requirements of mask between them; at
\* full_mask the two readings agree.
TableCoversExactly ==
    TableBuilt =>
        /\ DOMAIN dp = 0..full_mask
        /\ dp[0] = 0
        /\ \A mask \in 0..full_mask :
              dp[mask] = MinOrInf({SumOfSalaries(c) : c \in {x \in SUBSET UsefulWorkers : RequirementsOf(mask) = CoveredBy(x)}})

\* ------------------------------------------------------ one pass of _run_dp
\* Instance 1 is about to run the pass of _run_dp for its next worker.
Passing == call[1].class \in DPClasses /\ call[1].pc = "run_dp" /\ call[1].k <= Len(call[1].employees)

\* The out-of-place update of state T for a worker of the given mask and
\* cost, from the table dp_before: min(dp[T], min over S with S | mask = T of
\* dp[S] + cost).
OutOfPlace(dp_before, mask, cost, T) ==
    LET through == {dp_before[S] + cost : S \in {x \in DOMAIN dp_before : dp_before[x] < Inf /\ BitOr(x, mask) = T}}
    IN MinOrInf({dp_before[T]} \cup through)

\* C25: the in-place pass of _run_dp for one worker, over S from full_mask
\* down to 0, leaves in every state T the value of the out-of-place update
\* computed from the table as it was before the pass, so the worker is used
\* at most once on the way to any state; a state whose cost dropped points
\* back, through this worker, to a state that gave that cost before the pass,
\* and the other backpointers are as they were.
C25_PassIsOutOfPlace ==
    [][Passing =>
          LET before == attrs[1].dp
              after == attrs'[1].dp
              employee == call[1].employees[call[1].k][1]
              mask == call[1].employees[call[1].k][2]
              cost == employee.salary_per_hour
          IN /\ DOMAIN after = DOMAIN before
             /\ \A T \in DOMAIN before :
                   /\ after[T] = OutOfPlace(before, mask, cost, T)
                   /\ IF after[T] < before[T]
                      THEN /\ attrs'[1].parent[T][1] = employee
                           /\ BitOr(attrs'[1].parent[T][2], mask) = T
                           /\ before[attrs'[1].parent[T][2]] + cost = after[T]
                      ELSE attrs'[1].parent[T] = attrs[1].parent[T]]_vars

\* Two passes are done and the full state was reached through two workers.
C25_Witness ==
    /\ call[1].class = "DPSolver"
    /\ call[1].pc = "run_dp"
    /\ call[1].k > 2
    /\ attrs[1].dp[attrs[1].full_mask] < Inf
    /\ attrs[1].parent[attrs[1].full_mask][2] # 0

\* ------------------------------------------------------ the backpointer walk
\* The states the walk of _extract_solution visits from S on, the state it
\* stops at included (at most steps moves are followed).
RECURSIVE WalkPath(_, _)
WalkPath(S, steps) ==
    IF S # 0 /\ parent[S] # None /\ steps > 0
    THEN <<S>> \o WalkPath(parent[S][2], steps - 1)
    ELSE <<S>>

\* A DP solver has returned from a feasible instance with requirements.
Walked == pc = "returned" /\ solver \in DPClasses /\ Feasible /\ DOMAIN requirements # {}

\* C26: on every feasible instance the walk of _extract_solution from
\* full_mask goes from each state to a proper sub-mask of it, stops at state
\* 0 and nowhere else, collects a different worker at every move, and the
\* collected workers cover between them every requirement (their masks add
\* up to full_mask); they are the selection returned.
C26_WalkReachesZero ==
    Walked =>
        LET path == WalkPath(full_mask, full_mask + 1)
            moves == 1..(Len(path) - 1)
            collected == {parent[path[k]][1] : k \in moves}
        IN /\ path[1] = full_mask
           /\ path[Len(path)] = 0
           /\ \A k \in moves : /\ path[k] # 0
                               /\ parent[path[k]] # None
                               /\ BitAnd(path[k + 1], path[k]) = path[k + 1]
                               /\ path[k + 1] < path[k]
           /\ Cardinality(collected) = Len(path) - 1
           /\ CoveredBy(collected) = DOMAIN requirements
           /\ best_solution.employees = collected

\* DPSolver has walked from the full state through an intermediate state to
\* state 0.
C26_Witness ==
    /\ Walked
    /\ solver = "DPSolver"
    /\ Len(WalkPath(full_mask, full_mask + 1)) = 3
    /\ WalkPath(full_mask, full_mask + 1)[3] = 0

\* ------------------------------------------------ what GreedySolver selects
\* C27: the worker GreedySolver selects in an iteration was not selected
\* before and satisfies at least one requirement the selection leaves
\* uncovered; exactly the requirements it satisfies leave uncovered, at least
\* one of them.  So the workers selected are never more than the requirements
\* covered so far, and never more than the requirements.
C27_SelectedCoverNew ==
    [][GreedyRunning =>
          LET sel == call[1].selected
              chosen == call'[1].best_employee
          IN /\ Cardinality(sel) <= Cardinality(DOMAIN requirements) - Cardinality(StillUncovered(sel))
             /\ Cardinality(sel) <= Cardinality(DOMAIN requirements)
             /\ DOMAIN call[1].uncovered = StillUncovered(sel)
             /\ call'[1].pc = "loop" =>
                   /\ chosen \in employees \ sel
                   /\ NewlySatisfied(chosen, sel) # {}
                   /\ call'[1].selected = sel \cup {chosen}
                   /\ DOMAIN call'[1].uncovered = StillUncovered(sel) \ NewlySatisfied(chosen, sel)
                   /\ Cardinality(DOMAIN call'[1].uncovered) < Cardinality(DOMAIN call[1].uncovered)]_vars

\* Two workers are selected, and a worker of the pool holds a required skill
\* below the required level.
C27_Witness ==
    /\ GreedyRunning
    /\ Cardinality(call[1].selected) = 2
    /\ DOMAIN call[1].uncovered = {}
    /\ \E e \in employees : \E skill \in DOMAIN requirements : skill \in DOMAIN e.skills /\ e.skills[skill] < requirements[skill]

\* ------------------------------------------------------------- termination
Min(a, b) == IF a < b THEN a ELSE b

\* How far each solve() can be: the greedy loop has run at most min(workers,
\* requirements) iterations; the k-th call of _backtrack on the stack is at
\* position k (0-based k - 1), so there are at most workers + 1 of them; the
\* DP has done at most one pass per useful worker and every backpointer leads
\* to a smaller state; the oracle has seen at most the 2^n - 1 non-empty
\* subsets.
C28_Bounded ==
    /\ (call[1].class = "GreedySolver" /\ call[1].pc = "loop") =>
          Cardinality(call[1].selected) <= Min(Cardinality(employees), Cardinality(DOMAIN requirements))
    /\ (call[1].class = "BacktrackSolver" /\ call[1].pc = "backtrack") =>
          /\ Len(call[1].stack) <= Cardinality(employees) + 1
          /\ \A k \in 1..Len(call[1].stack) : call[1].stack[k].pos = k
    /\ (call[1].class \in DPClasses /\ call[1].pc = "run_dp") =>
          /\ call[1].k - 1 <= Len(call[1].employees)
          /\ Len(call[1].employees) <= Cardinality(employees)
          /\ \A S \in DOMAIN attrs[1].parent : attrs[1].parent[S] # None => attrs[1].parent[S][2] < S
    /\ (call[1].class = "OracleSolver" /\ call[1].pc = "subsets") =>
          call[1].k - 1 <= Shl1(Cardinality(employees)) - 1

\* C28: the solve() of every solver class, once called, returns (or
\* raises) after finitely many steps, on every instance, within the bounds
\* above.
C28_Terminates == []C28_Bounded /\ ((call[1].pc = "constructed") ~> (call[1].pc \in {"returned", "raised"}))

\* BacktrackSolver has returned after a recursion as deep as it can go.
C28_Witness ==
    /\ call[1].class = "BacktrackSolver"
    /\ call[1].pc = "returned"
    /\ Cardinality(employees) = 3
    /\ call[1].result.is_valid
    /\ Cardinality(call[1].result.employees) = 2

\* ------------------------------------------------ when GreedySolver succeeds
\* Some requirement is satisfied by no worker of the pool.
Uncoverable == \E skill \in DOMAIN requirements : \A e \in employees : skill \notin Coverage(e)

\* C29: GreedySolver.solve returns a valid Solution whenever some subset of
\* the pool covers all requirements; it reports is_valid = false only when
\* at least one requirement is satisfied by no worker of the pool.
C29_GreedyValidWhenFeasible ==
    Returned("GreedySolver") =>
        /\ Feasible => (best_solution.is_valid /\ Satisfies(best_solution.employees))
        /\ ~best_solution.is_valid => Uncoverable

\* GreedySolver returned a valid selection of two workers that costs more
\* than the cheapest complete cover.
C29_Witness ==
    /\ Returned("GreedySolver")
    /\ Feasible
    /\ best_solution.is_valid
    /\ Cardinality(best_solution.employees) = 2
    /\ best_solution.total_cost > MinCoverCost

\* ------------------------------------------------------- workers of cost 0
\* The candidates of cost 0.
FreeCandidates(sel) == {e \in Candidates(sel) : e.salary_per_hour = 0}

\* C30: GreedySolver.solve never divides by zero.  In every iteration each
\* worker that satisfies an uncovered requirement, the workers of cost 0
\* included, is divided by a positive number, so its efficiency is finite
\* (at most the number of requirements); solve does not raise; a worker of
\* cost 0 stays eligible (when every candidate costs 0 one of them is
\* chosen), and a chosen worker of cost 0 adds 0 to total_cost.
C30_NoDivisionByZero ==
    [][GreedyRunning =>
          LET sel == call[1].selected
              chosen == call'[1].best_employee
          IN /\ call'[1].pc # "raised"
             /\ \A e \in Candidates(sel) : EfficiencyDenominator(e) > 0
             /\ Candidates(sel) # {} => call'[1].pc = "loop"
             /\ (FreeCandidates(sel) # {} /\ FreeCandidates(sel) = Candidates(sel)) => chosen \in FreeCandidates(sel)
             /\ (call'[1].pc = "loop" /\ chosen.salary_per_hour = 0) => call'[1].total_cost = call[1].total_cost]_vars

\* GreedySolver returned a valid Solution that holds a worker of cost 0 and a
\* worker that is paid.
C30_Witness ==
    /\ call[1].class = "GreedySolver"
    /\ call[1].pc = "returned"
    /\ call[1].result.is_valid
    /\ \E e \in call[1].result.employees : e.salary_per_hour = 0
    /\ \E e \in call[1].result.employees : e.salary_per_hour = call[1].result.total_cost /\ e.salary_per_hour > 0

====
